---- MODULE Spec2Model ----
(***************************************************************************)
(* The chiaSWARM worker (swarm/worker.py): startup seeds the device pool,  *)
(* then a poll loop leases a device, asks the hive for work, dispatches    *)
(* the returned jobs, releases the device and sleeps.                      *)
(***************************************************************************)
EXTENDS Integers, Sequences, FiniteSets, TLC

\* ------------------------------------------------------------------ bounds
MaxDevices == 2
NumLoops == 2
MaxJobs == 2

Devices == 0..(MaxDevices - 1)
Loops == 1..NumLoops
\* asyncio.run(run_worker()): the program as written runs one poll loop
MainLoop == {1}

NoDevice == -1
NoWait == -1

\* torch.__version__ values, as (major, minor, micro)
TorchVersions == {<<1, 13, 1>>, <<2, 0, 0>>}
\* torch.cuda.mem_get_info(device) results: (free, total), free <= total
MemInfos == {<<0, 2>>, <<1, 2>>, <<2, 2>>}
NoMemInfo == <<>>

\* ------------------------------------------------------------------ values
\* a job list of n opaque job descriptors; a descriptor is named by its place
JobList(n) == [i \in 1..n |-> i]

Body(t, h, il, js) == [type |-> t, has_jobs |-> h, jobs_is_list |-> il, jobs |-> js]
NoBody == Body("none", FALSE, FALSE, <<>>)

\* what `await response.json()` meets in a 200 reply:
\*   invalid    - not JSON (json.JSONDecodeError)
\*   unreadable - reading the payload fails with an aiohttp.ClientError
\*   scalar     - JSON null / number / boolean
\*   array      - a JSON list (has_jobs: the string "jobs" is one of its items)
\*   string     - a JSON string (has_jobs: "jobs" is a substring)
\*   object     - a JSON object (has_jobs: it has the key "jobs")
Bodies200 ==
    {Body("invalid", FALSE, FALSE, <<>>),
     Body("unreadable", FALSE, FALSE, <<>>),
     Body("scalar", FALSE, FALSE, <<>>),
     Body("object", FALSE, FALSE, <<>>),
     Body("object", TRUE, FALSE, <<>>)}
    \cup {Body(t, h, FALSE, <<>>) : t \in {"array", "string"}, h \in BOOLEAN}
    \cup {Body("object", TRUE, TRUE, JobList(n)) : n \in 0..MaxJobs}

Bodies400 ==
    {Body(t, FALSE, FALSE, <<>>) :
        t \in {"invalid", "unreadable", "scalar", "array", "string", "object"}}

Statuses == {200, 204, 400, 404, 500}

\* failures of the exchange itself (no response object)
NetworkFailures == {"ClientConnectorError", "ClientError", "TimeoutError", "Exception"}

Response(k, s, b) == [kind |-> k, status |-> s, body |-> b]
NoResponse == Response("none", 0, NoBody)

Responses ==
    {Response(k, 0, NoBody) : k \in NetworkFailures}
    \cup {Response("http", 200, b) : b \in Bodies200}
    \cup {Response("http", 400, b) : b \in Bodies400}
    \cup {Response("http", s, NoBody) : s \in Statuses \ {200, 400}}

\* the exchanges drawn when several poll loops run side by side
ConcResponses ==
    {Response("ClientConnectorError", 0, NoBody),
     Response("http", 200, Body("object", TRUE, TRUE, JobList(0))),
     Response("http", 200, Body("object", TRUE, TRUE, JobList(1))),
     Response("http", 400, Body("object", FALSE, FALSE, <<>>))}

\* what a step of ask_for_work yields: a returned wait, a raised exception,
\* or a job list to iterate over
Ret(v) == [tag |-> "return", value |-> v, exc |-> "none", jobs |-> <<>>]
Raise(e) == [tag |-> "raise", value |-> NoWait, exc |-> e, jobs |-> <<>>]
Dispatch(js) == [tag |-> "dispatch", value |-> NoWait, exc |-> "none", jobs |-> js]

Task(j, w, p, r) == [job |-> j, work |-> w, posts |-> p, reply |-> r]

\* ------------------------------------------------------------------ state
VARIABLES
    phase,          \* "init" | "running" | "failed": how run_worker's startup went
    torch,          \* what startup saw of the accelerator runtime
    startup_error,  \* the message startup raised ("none" when it returned)
    device_count,   \* torch.cuda.device_count() as seen by startup
    pool,           \* the device pool: the available Devices, in queue order
    pc,             \* per poll loop: where it is suspended
    device,         \* per poll loop: the Device it holds (NoDevice: none)
    wait_seconds,   \* per poll loop: run_worker's wait_seconds
    mem_info,       \* per poll loop: ask_for_work's mem_info
    request,        \* per poll loop: the GET /work request in flight
    response,       \* per poll loop: what this iteration's exchange produced
    tasks,          \* per poll loop: the spawn_task calls of this iteration
    outcome,        \* per poll loop: how ask_for_work ended this iteration
    prev_wait       \* per poll loop: the wait_seconds this iteration slept for

vars == <<phase, torch, startup_error, device_count, pool, pc, device, wait_seconds,
          mem_info, request, response, tasks, outcome, prev_wait>>

Request(d, v) == [worker_name |-> d, vram |-> v]
NoRequest == Request(NoDevice, -1)

\* ------------------------------------------------------------ device pool
\* swarm/gpu/device_pool.py: a blocking queue of available Devices
add_device_to_pool(p, d) == Append(p, d)

\* remove_device_from_pool blocks while this is false
pool_has_device(p) == Len(p) > 0

\* the pool after the Device at place i was taken out
remove_device_from_pool(p, i) == [k \in 1..(Len(p) - 1) |-> IF k < i THEN p[k] ELSE p[k + 1]]

\* ---------------------------------------------------------------- startup
\* version.parse(a) < version.parse(b) on release triples
VersionLess(a, b) ==
    \/ a[1] < b[1]
    \/ a[1] = b[1] /\ a[2] < b[2]
    \/ a[1] = b[1] /\ a[2] = b[2] /\ a[3] < b[3]

MinTorchVersion == <<2, 0, 0>>

RECURSIVE SeedPool(_, _, _)
\* for i in range(0, n): add_device_to_pool(Device(i))
SeedPool(p, i, n) == IF i >= n THEN p ELSE SeedPool(add_device_to_pool(p, i), i + 1, n)

\* the accelerator runtime startup meets: whether torch was built with CUDA,
\* torch.__version__, and the number of devices the driver reports
Torch(c, v, n) == [compiled |-> c, version |-> v, count |-> n]
NoTorch == Torch(FALSE, <<0, 0, 0>>, 0)

\* torch.cuda.is_available(): built with CUDA and the device count is not 0
cuda_is_available(t) == t.compiled /\ t.count > 0

\* variant: the version check is left out
startup_checks_no_version(t) ==
    IF ~cuda_is_available(t) THEN "CUDA not present. Quitting." ELSE "none"

\* the two checks at the head of startup: the message of the exception
\* raised, "none" when both pass
startup_checks(t) ==
    IF ~cuda_is_available(t) THEN "CUDA not present. Quitting."
    ELSE IF VersionLess(t.version, MinTorchVersion) THEN "Pytorch must be 2.0 or greater"
    ELSE "none"

Startup ==
    /\ phase = "init"
    /\ \E c \in BOOLEAN, v \in TorchVersions, n \in 0..MaxDevices :
        LET t == Torch(c, v, n) IN
        /\ torch' = t
        /\ startup_error' = startup_checks(t)
        /\ IF startup_checks(t) # "none"
           THEN /\ phase' = "failed"
                /\ UNCHANGED <<device_count, pool>>
           ELSE /\ phase' = "running"
                /\ device_count' = t.count
                /\ pool' = SeedPool(pool, 0, t.count)
    /\ UNCHANGED <<pc, device, wait_seconds, mem_info, request, response, tasks,
                   outcome, prev_wait>>

\* ------------------------------------------------------ work request client
\* variant: only server errors raise
raise_for_status_5xx(status) == status >= 500

\* response.raise_for_status(): raises ClientResponseError when status >= 400
raise_for_status(status) == status >= 400

\* variant: no isinstance check, a `jobs` value of another type is iterated
handle_status_200_checks_any_jobs(body) ==
    IF body.type = "invalid" THEN Ret(11)
    ELSE IF body.type = "unreadable" THEN Raise("ClientError")
    ELSE IF body.type = "scalar" THEN Raise("TypeError")
    ELSE IF ~body.has_jobs THEN Ret(11)
    ELSE IF body.type # "object" THEN Raise("TypeError")
    ELSE IF ~body.jobs_is_list THEN Dispatch(JobList(1))
    ELSE Dispatch(body.jobs)

\* handle_status_200 up to its for loop: decode the body and check `jobs`
handle_status_200_checks(body) ==
    IF body.type = "invalid" THEN Ret(11)                 \* json.JSONDecodeError
    ELSE IF body.type = "unreadable" THEN Raise("ClientError")
    ELSE IF body.type = "scalar" THEN Raise("TypeError")  \* "jobs" not in <scalar>
    ELSE IF ~body.has_jobs THEN Ret(11)                   \* "jobs" not in response_dict
    ELSE IF body.type # "object" THEN Raise("TypeError")  \* response_dict["jobs"] on list/str
    ELSE IF ~body.jobs_is_list THEN Ret(11)
    ELSE Dispatch(body.jobs)

\* variant: the two waits swapped
handle_status_200_return_swapped(did_work) == IF did_work THEN 11 ELSE 0

\* return 0 if did_work else 11
handle_status_200_return(did_work) == IF did_work THEN 0 ELSE 11

\* variant: the message is printed and nothing is raised
handle_status_400_silent(status, body) == Ret(11)

\* handle_status_400: decode, pop "message", print, raise_for_status
handle_status_400(status, body) ==
    IF body.type = "invalid" THEN Raise("JSONDecodeError")
    ELSE IF body.type = "unreadable" THEN Raise("ClientError")
    ELSE IF body.type \in {"scalar", "string"} THEN Raise("AttributeError")  \* no .pop
    ELSE IF body.type = "array" THEN Raise("TypeError")   \* list.pop takes one argument
    ELSE IF raise_for_status(status) THEN Raise("ClientResponseError")
    ELSE Ret(11)                                          \* falls through to `return 11`

\* the status dispatch of ask_for_work inside `async with ... as response`
ask_for_work_status(status, body) ==
    IF status = 200 THEN handle_status_200_checks(body)
    ELSE IF status = 400 THEN handle_status_400(status, body)
    ELSE IF raise_for_status(status) THEN Raise("ClientResponseError")
    ELSE Ret(11)

\* subclasses of aiohttp.ClientError among the exceptions of the model
IsClientError(exc) == exc \in {"ClientConnectorError", "ClientError", "ClientResponseError"}

\* variant: a timeout is retried after the short wait
ask_for_work_except_short_timeout(exc) == IF exc = "TimeoutError" THEN 11 ELSE 121

\* the except clauses of ask_for_work: the wait each one returns
ask_for_work_except(exc) ==
    IF exc = "ClientConnectorError" THEN 121
    ELSE IF IsClientError(exc) THEN 121
    ELSE IF exc = "TimeoutError" THEN 121
    ELSE 121

\* variant: the except clause picks the short wait
run_worker_except_short == 121 - 110

\* run_worker: `except Exception: wait_seconds = 121`
run_worker_except == 121

\* variant: the Device is returned in the except clause and again in finally
run_worker_finally_twice(p, d) == add_device_to_pool(add_device_to_pool(p, d), d)

\* variant: no finally clause, the Device is never returned
run_worker_finally_never(p, d) == p

\* variant: the finally clause returns Device 0 whatever was leased
run_worker_finally_first(p, d) == add_device_to_pool(p, 0)

\* run_worker: `finally: add_device_to_pool(device)`
run_worker_finally(p, d) == add_device_to_pool(p, d)

\* variant: the worker name carries a fixed ordinal
request_worker_name_fixed(d) == 0

\* the device ordinal in the `worker_name` parameter of the request
request_worker_name(d) == d

\* the `vram` parameter of the request, from mem_info
request_vram(m) == m[2]

\* ------------------------------------------------------------- poll loop
\* ask_for_work is over (returned w, or raised when how = "raised"): run_worker
\* assigns wait_seconds, the finally clause returns the Device, the loop goes
\* back to its sleep
EndIteration(l, w, how) ==
    /\ wait_seconds' = [wait_seconds EXCEPT ![l] = w]
    /\ UNCHANGED prev_wait
    /\ pool' = run_worker_finally(pool, device[l])
    /\ device' = [device EXCEPT ![l] = NoDevice]
    /\ outcome' = [outcome EXCEPT ![l] = how]
    /\ mem_info' = [mem_info EXCEPT ![l] = NoMemInfo]
    /\ request' = [request EXCEPT ![l] = NoRequest]
    /\ pc' = [pc EXCEPT ![l] = "sleep"]

\* await asyncio.sleep(wait_seconds)
Sleep(l) ==
    /\ phase = "running"
    /\ pc[l] = "sleep"
    /\ pc' = [pc EXCEPT ![l] = "acquire"]
    /\ response' = [response EXCEPT ![l] = NoResponse]
    /\ tasks' = [tasks EXCEPT ![l] = <<>>]
    /\ outcome' = [outcome EXCEPT ![l] = "none"]
    /\ prev_wait' = [prev_wait EXCEPT ![l] = wait_seconds[l]]
    /\ UNCHANGED <<phase, torch, startup_error, device_count, pool, device, wait_seconds,
                   mem_info, request>>

\* device = remove_device_from_pool()
Acquire(l) ==
    /\ pc[l] = "acquire"
    /\ pool_has_device(pool)
    /\ \E i \in 1..Len(pool) :
        /\ device' = [device EXCEPT ![l] = pool[i]]
        /\ pool' = remove_device_from_pool(pool, i)
    /\ pc' = [pc EXCEPT ![l] = "ask_for_work"]
    /\ UNCHANGED <<phase, torch, startup_error, device_count, wait_seconds, mem_info,
                   request, response, tasks, outcome, prev_wait>>

\* ask_for_work up to the GET: query the device memory, send the request
AskForWork(l, mems) ==
    /\ pc[l] = "ask_for_work"
    /\ \/ \* torch.cuda.mem_get_info raises, outside ask_for_work's try
          /\ EndIteration(l, run_worker_except, "raised")
          /\ UNCHANGED <<response, tasks>>
       \/ \E m \in mems :
            /\ mem_info' = [mem_info EXCEPT ![l] = m]
            /\ request' = [request EXCEPT ![l] = Request(request_worker_name(device[l]), request_vram(m))]
            /\ pc' = [pc EXCEPT ![l] = "get"]
            /\ UNCHANGED <<pool, device, wait_seconds, response, tasks, outcome,
                           prev_wait>>
    /\ UNCHANGED <<phase, torch, startup_error, device_count>>

\* variant: the loop stops one job short
for_has_job_short(js, k) == k < Len(js)

\* the for loop of handle_status_200: the job it takes at its k-th pass, and
\* whether there is a k-th pass
for_job(js, k) == js[k]
for_has_job(js, k) == k <= Len(js)

\* variant: spawn_task without its try/except
spawn_task_uncaught(exc) == TRUE

\* spawn_task's `except Exception`: nothing it catches is raised again
spawn_task_propagates(exc) == FALSE

\* spawn_task sends the POST only when do_work returned and json.dumps could
\* encode what it returned: the `data=` argument is evaluated before the
\* request is made, and a TypeError from it is raised inside the try
spawn_task_posts(work, encodable) == work = "ok" /\ encodable

\* what leaves the try of spawn_task without a POST: the exception of do_work,
\* or the TypeError of json.dumps
spawn_task_raised(work) == IF work = "ok" THEN "TypeError" ELSE "Exception"

\* variant: a 500 reply makes spawn_task send the result again
spawn_task_reposts_500(reply) == reply = "500"

\* spawn_task sends the result again after this reply: never
spawn_task_reposts(reply) == FALSE

\* the for loop of handle_status_200 over the list js, after the spawn_task
\* calls ts: it enters spawn_task for the next job, or handle_status_200 returns
FinishTask(l, js, ts) ==
    LET k == Len(ts) + 1 IN
    IF for_has_job(js, k)
    THEN /\ tasks' = [tasks EXCEPT ![l] = Append(ts, Task(for_job(js, k), "running", 0, "none"))]
         /\ pc' = [pc EXCEPT ![l] = "do_work"]
         /\ UNCHANGED <<pool, device, wait_seconds, mem_info, request, outcome, prev_wait>>
    ELSE /\ tasks' = [tasks EXCEPT ![l] = ts]
         /\ EndIteration(l, handle_status_200_return(Len(ts) > 0), "returned")

\* an exception leaves spawn_task: it ends handle_status_200 and is caught by
\* ask_for_work's `except Exception`
AbortTasks(l, ts, exc) ==
    /\ tasks' = [tasks EXCEPT ![l] = ts]
    /\ EndIteration(l, ask_for_work_except(exc), "returned")

\* the exchange ends: a failure, or a response that is handled up to the
\* first do_work
Receive(l, resps) ==
    /\ pc[l] = "get"
    /\ \E r \in resps :
        /\ response' = [response EXCEPT ![l] = r]
        /\ IF r.kind # "http"
           THEN /\ EndIteration(l, ask_for_work_except(r.kind), "returned")
                /\ UNCHANGED tasks
           ELSE LET res == ask_for_work_status(r.status, r.body) IN
                IF res.tag = "raise"
                THEN /\ EndIteration(l, ask_for_work_except(res.exc), "returned")
                     /\ UNCHANGED tasks
                ELSE IF res.tag = "return"
                THEN /\ EndIteration(l, res.value, "returned")
                     /\ UNCHANGED tasks
                ELSE FinishTask(l, res.jobs, <<>>)
    /\ UNCHANGED <<phase, torch, startup_error, device_count>>

\* result = await do_work(job, device): it returns or raises; what it
\* returned is serialised with json.dumps, which raises for a value JSON cannot
\* encode (bytes, a set), and only then is the POST sent
DoWork(l) ==
    /\ pc[l] = "do_work"
    /\ \E work \in {"ok", "raised"}, encodable \in BOOLEAN :
        LET n == Len(tasks[l])
            cur == tasks[l][n] IN
        IF spawn_task_posts(work, encodable)
        THEN /\ tasks' = [tasks EXCEPT ![l][n] = Task(cur.job, work, cur.posts + 1, "pending")]
             /\ pc' = [pc EXCEPT ![l] = "post"]
             /\ UNCHANGED <<pool, device, wait_seconds, mem_info, request, outcome, prev_wait>>
        ELSE LET ts == [tasks[l] EXCEPT ![n] = Task(cur.job, work, cur.posts, "none")] IN
             IF spawn_task_propagates(spawn_task_raised(work))
             THEN AbortTasks(l, ts, spawn_task_raised(work))
             ELSE FinishTask(l, response[l].body.jobs, ts)
    /\ UNCHANGED <<phase, torch, startup_error, device_count, response>>

\* the POST /results exchange ends: status 500, another status with a JSON
\* body, or a failure (of the exchange or of decoding the reply)
PostResult(l) ==
    /\ pc[l] = "post"
    /\ \E reply \in {"200", "500", "error"} :
        LET n == Len(tasks[l])
            cur == tasks[l][n] IN
        IF spawn_task_reposts(reply) /\ cur.posts < 2
        THEN /\ tasks' = [tasks EXCEPT ![l][n] = Task(cur.job, cur.work, cur.posts + 1, "pending")]
             /\ UNCHANGED <<pool, device, wait_seconds, mem_info, request, outcome, prev_wait, pc>>
        ELSE LET ts == [tasks[l] EXCEPT ![n] = Task(cur.job, cur.work, cur.posts, reply)] IN
             IF reply = "error" /\ spawn_task_propagates("Exception")
             THEN AbortTasks(l, ts, "Exception")
             ELSE FinishTask(l, response[l].body.jobs, ts)
    /\ UNCHANGED <<phase, torch, startup_error, device_count, response>>

\* ------------------------------------------------------------ specification
Init ==
    /\ phase = "init"
    /\ torch = NoTorch
    /\ startup_error = "none"
    /\ device_count = 0
    /\ pool = <<>>
    /\ pc = [l \in Loops |-> "sleep"]
    /\ device = [l \in Loops |-> NoDevice]
    /\ wait_seconds = [l \in Loops |-> 0]
    /\ mem_info = [l \in Loops |-> NoMemInfo]
    /\ request = [l \in Loops |-> NoRequest]
    /\ response = [l \in Loops |-> NoResponse]
    /\ tasks = [l \in Loops |-> <<>>]
    /\ outcome = [l \in Loops |-> "none"]
    /\ prev_wait = [l \in Loops |-> 0]

\* one poll loop takes a step
Iterate(l, mems, resps) ==
    \/ Sleep(l)
    \/ Acquire(l)
    \/ AskForWork(l, mems)
    \/ Receive(l, resps)
    \/ DoWork(l)
    \/ PostResult(l)

\* the program as written: startup, then the one poll loop
Next ==
    \/ Startup
    \/ \E l \in MainLoop : Iterate(l, MemInfos, Responses)

Spec == Init /\ [][Next]_vars

\* several poll loops over the one pool
NextConc ==
    \/ Startup
    \/ \E l \in Loops : Iterate(l, {<<1, 2>>}, ConcResponses)

SpecConc == Init /\ [][NextConc]_vars

\* the one poll loop, where every sleep, exchange and computation it is
\* suspended in eventually returns or fails
FairSpec == Spec /\ \A l \in MainLoop : WF_vars(Iterate(l, MemInfos, Responses))

\* ------------------------------------------------------------------ claims
\* a loop in one of these places holds a lease
InLease == {"ask_for_work", "get", "do_work", "post"}

\* how many times Device d is in the pool p
Count(p, d) == Cardinality({i \in 1..Len(p) : p[i] = d})

Registered == 0..(device_count - 1)
Available == {pool[i] : i \in 1..Len(pool)}
Leased == {device[l] : l \in Loops} \ {NoDevice}

\* the pool holds every registered Device once and nothing else
PoolIsRegistry == Len(pool) = device_count /\ Available = Registered

IterationOver(l) == pc[l] = "sleep" /\ outcome[l] # "none"

\* a 200 reply whose body is an object with a `jobs` list
WellFormed(r) ==
    /\ r.kind = "http" /\ r.status = 200
    /\ r.body.type = "object" /\ r.body.has_jobs /\ r.body.jobs_is_list

\* a 200 reply that does not decode, has no `jobs` field, or whose `jobs`
\* field is not a list
Malformed(r) ==
    /\ r.kind = "http" /\ r.status = 200
    /\ \/ r.body.type = "invalid"
       \/ r.body.type \in {"scalar", "array", "string"}
       \/ r.body.type = "object" /\ ~r.body.has_jobs
       \/ r.body.type = "object" /\ r.body.has_jobs /\ ~r.body.jobs_is_list

TaskDone(t) == t.work # "running" /\ t.reply # "pending"
\* the result of the task could not be serialised: do_work returned and
\* nothing was posted
TaskUnsent(t) == t.work = "ok" /\ t.posts = 0
TaskFailed(t) == t.work = "raised" \/ TaskUnsent(t) \/ t.reply \in {"500", "error"}

\* C1: no Device is leased twice concurrently: whatever the interleaving of
\* the poll loops, no two of them hold the same Device, and a Device a loop
\* holds is not available in the pool
C1_NoDoubleLease ==
    \A l1 \in Loops :
        device[l1] # NoDevice =>
            /\ \A l2 \in Loops \ {l1} : device[l2] # device[l1]
            /\ device[l1] \notin Available

\* two loops hold leases at once, after an earlier iteration has ended
C1_Witness ==
    /\ \E l1, l2 \in Loops : l1 # l2 /\ device[l1] # NoDevice /\ device[l2] # NoDevice
    /\ \E l \in Loops : wait_seconds[l] # 0

\* C2: once startup has seeded the pool, the available and the leased
\* Devices are disjoint, no Device is in the pool twice, and together they
\* are exactly the Devices 0..device_count-1 enumerated at startup
C2_PoolPartition ==
    phase = "running" =>
        /\ Available \cap Leased = {}
        /\ Available \cup Leased = Registered
        /\ \A d \in Available : Count(pool, d) = 1

\* a Device is leased again after an earlier iteration failed
C2_Witness ==
    /\ phase = "running" /\ device_count = MaxDevices
    /\ device[1] # NoDevice /\ wait_seconds[1] = 121

\* C3: each acquire is followed by exactly one release of the same Device
\* in the same iteration: the pool is untouched while the lease is held, the
\* step that ends the iteration (return, error wait or raise alike) puts the
\* leased Device back exactly once, and nothing is put back between iterations
C3_ReleaseOncePerAcquire ==
    [][\A l \in MainLoop :
        /\ (pc[l] = "acquire" /\ pc'[l] # "acquire") =>
              /\ pc'[l] \in InLease /\ device'[l] # NoDevice
              /\ Len(pool') = Len(pool) - 1
              /\ Count(pool', device'[l]) = Count(pool, device'[l]) - 1
        /\ (pc[l] \in InLease /\ pc'[l] \in InLease) =>
              pool' = pool /\ device'[l] = device[l]
        /\ (pc[l] \in InLease /\ pc'[l] \notin InLease) =>
              /\ pc'[l] = "sleep" /\ device'[l] = NoDevice
              /\ Len(pool') = Len(pool) + 1
              /\ Count(pool', device[l]) = Count(pool, device[l]) + 1
        /\ (phase = "running" /\ pc[l] = "sleep") => pool' = pool
      ]_vars

\* an iteration whose work request raised has ended with the Device back
C3_Witness ==
    /\ IterationOver(1) /\ outcome[1] = "raised"
    /\ device_count >= 1 /\ PoolIsRegistry

\* C4: for a 200 reply with a well-formed list of n >= 1 jobs, spawn_task is
\* entered once per entry in list order, each call is over before the next
\* starts, the lease is held throughout, and when the iteration is over all n
\* calls are done and the wait is 0
C4_DispatchInOrder ==
    \A l \in MainLoop :
        LET r == response[l]
            js == r.body.jobs IN
        (WellFormed(r) /\ Len(js) >= 1) =>
            /\ Len(tasks[l]) <= Len(js)
            /\ \A k \in 1..Len(tasks[l]) : tasks[l][k].job = js[k]
            /\ \A k \in 1..(Len(tasks[l]) - 1) : TaskDone(tasks[l][k])
            /\ pc[l] # "sleep" =>
                  /\ pc[l] \in {"do_work", "post"}
                  /\ device[l] # NoDevice /\ device[l] \notin Available
            /\ pc[l] = "sleep" =>
                  /\ Len(tasks[l]) = Len(js)
                  /\ \A k \in 1..Len(js) : TaskDone(tasks[l][k])
                  /\ wait_seconds[l] = 0

\* an iteration that received two jobs is over
C4_Witness ==
    /\ IterationOver(1) /\ WellFormed(response[1])
    /\ Len(response[1].body.jobs) = 2 /\ Len(tasks[1]) = 2
    /\ wait_seconds[1] = 0

\* C5 as claimed: after any malformed 200 reply the wait is 11, nothing was
\* dispatched and ask_for_work returned
C5_MalformedWaits11 ==
    \A l \in MainLoop :
        (IterationOver(l) /\ Malformed(response[l])) =>
            /\ wait_seconds[l] = 11
            /\ tasks[l] = <<>>
            /\ outcome[l] = "returned"

\* C6 as claimed: a 400 reply makes ask_for_work raise to run_worker, nothing
\* is dispatched and the pool is whole again
C6_Status400Raises ==
    \A l \in MainLoop :
        (IterationOver(l) /\ response[l].kind = "http" /\ response[l].status = 400) =>
            /\ outcome[l] = "raised"
            /\ tasks[l] = <<>>
            /\ PoolIsRegistry

\* C6 amended: after a 400 reply ask_for_work has caught the error itself and
\* returned the wait 121; nothing is dispatched, the lease is released and the
\* pool is whole again
C6_Status400Returns121 ==
    \A l \in MainLoop :
        (IterationOver(l) /\ response[l].kind = "http" /\ response[l].status = 400) =>
            /\ outcome[l] = "returned"
            /\ wait_seconds[l] = 121
            /\ tasks[l] = <<>>
            /\ device[l] = NoDevice
            /\ PoolIsRegistry

\* a 400 reply with a JSON object body has been handled
C6_Witness ==
    /\ IterationOver(1) /\ response[1].status = 400
    /\ response[1].body.type = "object"
    /\ device_count >= 1 /\ wait_seconds[1] = 121

\* the exchange failed: no response, or the payload could not be read
ExchangeFailed(r) ==
    \/ r.kind \in NetworkFailures
    \/ r.kind = "http" /\ r.body.type = "unreadable"

\* C7: when the exchange fails (connection, client error, timeout, anything
\* else) the wait is 121, nothing is dispatched and the lease is released
C7_ExchangeFailureWaits121 ==
    \A l \in MainLoop :
        (IterationOver(l) /\ ExchangeFailed(response[l])) =>
            /\ wait_seconds[l] = 121
            /\ tasks[l] = <<>>
            /\ device[l] = NoDevice
            /\ PoolIsRegistry

\* a request timed out
C7_Witness ==
    /\ IterationOver(1) /\ response[1].kind = "TimeoutError"
    /\ device_count >= 1 /\ wait_seconds[1] = 121

\* C8: once a job of the response has failed (do_work raised, the result
\* could not be serialised, or the submission failed), ask_for_work still does not raise, the lease stays held
\* until every later job was dispatched, and the iteration ends with wait 0
C8_JobFailureIsolated ==
    \A l \in MainLoop :
        (\E k \in 1..Len(tasks[l]) : TaskFailed(tasks[l][k])) =>
            /\ outcome[l] # "raised"
            /\ pc[l] \in {"do_work", "post", "sleep"}
            /\ pc[l] # "sleep" => device[l] # NoDevice /\ device[l] \notin Available
            /\ pc[l] = "sleep" =>
                  /\ Len(tasks[l]) = Len(response[l].body.jobs)
                  /\ wait_seconds[l] = 0

\* the first of two jobs raised in do_work, the second was computed and
\* submitted
C8_Witness ==
    /\ IterationOver(1) /\ Len(tasks[1]) = 2
    /\ tasks[1][1].work = "raised"
    /\ tasks[1][2].work = "ok" /\ tasks[1][2].reply = "200"

\* a 200 reply with an empty `jobs` list
NoWorkAvailable(r) == WellFormed(r) /\ r.body.jobs = <<>>

\* C9: a NoWorkAvailable reply leaves the wait at 11 whatever the wait before
\* was, and dispatches nothing
C9_NoWorkWaits11 ==
    \A l \in MainLoop :
        (IterationOver(l) /\ NoWorkAvailable(response[l])) =>
            /\ wait_seconds[l] = 11
            /\ tasks[l] = <<>>

\* NoWorkAvailable after an iteration that had already set the wait to 11
C9_Witness ==
    /\ IterationOver(1) /\ NoWorkAvailable(response[1])
    /\ prev_wait[1] = 11 /\ wait_seconds[1] = 11

OtherStatus(r) == r.kind = "http" /\ r.status \notin {200, 400}

\* C10 as claimed: any status other than 200 and 400 is raised to run_worker,
\* which sets the wait to 121
C10_OtherStatusRaises ==
    \A l \in MainLoop :
        (IterationOver(l) /\ OtherStatus(response[l])) =>
            /\ outcome[l] = "raised"
            /\ wait_seconds[l] = 121

\* C10 amended: for a status other than 200 and 400 ask_for_work returns
\* (nothing reaches run_worker's except clause) and dispatches nothing; the
\* wait is 121 when the status is 400 or above and 11 when it is below 400,
\* never 0
C10_OtherStatusWait ==
    \A l \in MainLoop :
        (IterationOver(l) /\ OtherStatus(response[l])) =>
            /\ outcome[l] = "returned"
            /\ tasks[l] = <<>>
            /\ wait_seconds[l] = IF response[l].status >= 400 THEN 121 ELSE 11

\* a 204 reply was answered with the short wait
C10_Witness ==
    /\ IterationOver(1) /\ response[1].kind = "http" /\ response[1].status = 204
    /\ wait_seconds[1] = 11

\* C11: startup fails, with the pool still empty and no poll loop started,
\* whenever the runtime is absent, torch is older than 2.0.0 or no device is
\* found; the poll loop runs only after startup has put at least one Device
\* into the pool
C11_StartupPreconditions ==
    /\ phase # "init" =>
          ((~torch.compiled \/ torch.count = 0 \/ torch.version[1] < 2) => phase = "failed")
    /\ phase # "running" =>
          /\ pool = <<>>
          /\ \A l \in Loops :
                /\ pc[l] = "sleep" /\ outcome[l] = "none"
                /\ device[l] = NoDevice /\ request[l] = NoRequest
    /\ phase = "running" =>
          /\ device_count >= 1
          /\ Cardinality(Available \cup Leased) >= 1

\* startup has failed on a machine with the runtime built in, a recent torch
\* and no device
C11_Witness ==
    /\ phase = "failed"
    /\ torch.compiled /\ torch.count = 0 /\ torch.version = <<2, 0, 0>>

\* C12: a Device released into a pool with no available Device is the one
\* the next acquire returns: releasing into the empty pool leaves exactly that
\* Device available, and an acquire from a pool of one Device takes it; with
\* one registered Device every lease is of Device 0
C12_ReleaseThenAcquire ==
    [][\A l \in Loops :
        /\ (pc[l] \in InLease /\ pc'[l] = "sleep" /\ pool = <<>>) =>
              pool' = <<device[l]>>
        /\ (pc[l] = "acquire" /\ pc'[l] # "acquire" /\ Len(pool) = 1) =>
              device'[l] = pool[1] /\ pool' = <<>>
        /\ (device_count = 1 /\ device'[l] # NoDevice) => device'[l] = 0
      ]_vars

\* with one registered Device, a loop holds it again after an iteration of
\* its own has released it
C12_Witness ==
    /\ device_count = 1 /\ pool = <<>>
    /\ \E l \in Loops : device[l] = 0 /\ wait_seconds[l] = 11

\* the wait the claim assigns to an iteration that is over
ClaimedWait(l) ==
    LET r == response[l] IN
    IF outcome[l] = "raised" THEN 121
    ELSE IF ExchangeFailed(r) THEN 121
    ELSE IF WellFormed(r) THEN (IF r.body.jobs # <<>> THEN 0 ELSE 11)
    ELSE IF Malformed(r) THEN 11
    ELSE wait_seconds[l]

\* C13 as claimed: wait_seconds starts at 0, is always one of 0, 11, 121, and
\* after an iteration is 0 for WorkAssigned, 11 for NoWorkAvailable or a
\* malformed reply, 121 for a failed exchange or a raised error, whatever it
\* was before
C13_WaitFromOutcome ==
    \A l \in MainLoop :
        /\ wait_seconds[l] \in {0, 11, 121}
        /\ phase # "running" => wait_seconds[l] = 0
        /\ IterationOver(l) => wait_seconds[l] = ClaimedWait(l)

\* the places of a poll loop in the order an iteration goes through them
StepOrder ==
    {<<"sleep", "acquire">>, <<"acquire", "ask_for_work">>,
     <<"ask_for_work", "get">>, <<"ask_for_work", "sleep">>,
     <<"get", "do_work">>, <<"get", "sleep">>,
     <<"do_work", "post">>, <<"do_work", "sleep">>,
     <<"post", "do_work">>, <<"post", "sleep">>}

\* C14: an iteration goes suspend, acquire, work request, job dispatches,
\* release in this order; the request is in flight only under a lease and
\* names the leased Device, the dispatches run under the same lease, and the
\* Device is back in the pool when the loop suspends again
C14_StepOrder ==
    [][\A l \in MainLoop :
        /\ pc'[l] # pc[l] => <<pc[l], pc'[l]>> \in StepOrder
        /\ (pc[l] = "do_work" /\ pc'[l] = "do_work") => Len(tasks'[l]) = Len(tasks[l]) + 1
        /\ pc'[l] \in {"get", "do_work", "post"} =>
              /\ device'[l] # NoDevice /\ device'[l] \notin {pool'[i] : i \in 1..Len(pool')}
              /\ request'[l] # NoRequest
              /\ request'[l].worker_name = device'[l]
        /\ pc'[l] \in {"do_work", "post"} =>
              device'[l] = device[l] /\ request'[l] = request[l]
        /\ pc'[l] \in {"sleep", "acquire"} =>
              /\ request'[l] = NoRequest /\ device'[l] = NoDevice
              /\ Len(pool') = device_count'
      ]_vars

\* the second job of a response is being submitted under the lease of
\* Device 1, which the request named
C14_Witness ==
    /\ pc[1] = "post" /\ Len(tasks[1]) = 2
    /\ device[1] = 1 /\ request[1].worker_name = 1

\* C15: when the work-request step raises (the device-memory query failed),
\* run_worker has set the wait to 121 and returned the Device, nothing was
\* requested or dispatched, and the loop is ready for its next iteration
C15_RaiseIsCaught ==
    \A l \in MainLoop :
        outcome[l] = "raised" =>
            /\ pc[l] = "sleep" /\ phase = "running"
            /\ wait_seconds[l] = 121
            /\ device[l] = NoDevice /\ PoolIsRegistry
            /\ response[l] = NoResponse /\ tasks[l] = <<>>
            /\ ENABLED Sleep(l)

\* the memory query failed in an iteration that had slept 11 seconds
C15_Witness ==
    /\ outcome[1] = "raised" /\ pc[1] = "sleep"
    /\ prev_wait[1] = 11 /\ wait_seconds[1] = 121

\* C16: after a successful startup the poll loop never stops: again and
\* again it enters the work request step and again and again an iteration
\* ends with the Device returned
C16_LoopRunsForever ==
    /\ [](phase = "running" => <>(pc[1] = "ask_for_work"))
    /\ [](phase = "running" => <>(IterationOver(1) /\ PoolIsRegistry))

\* the loop is in the work request step again after an iteration that failed
C16_Witness ==
    /\ pc[1] = "ask_for_work" /\ wait_seconds[1] = 121 /\ device[1] # NoDevice

\* C17: a result is submitted at most once per job and only for a job whose
\* do_work returned (a job whose do_work raised, or whose result json.dumps
\* could not encode, gets no submission and no reply); a 500 reply ends the task without another submission,
\* and the iteration still dispatches every job and ends with wait 0
C17_SubmitAtMostOnce ==
    \A l \in MainLoop :
        \A k \in 1..Len(tasks[l]) :
            LET t == tasks[l][k] IN
            /\ t.posts <= 1
            /\ t.posts = 1 => t.work = "ok"
            /\ t.work = "raised" => t.posts = 0
            /\ t.posts = 0 => t.reply = "none"
            /\ t.reply = "500" =>
                  /\ outcome[l] # "raised"
                  /\ pc[l] \in {"do_work", "post", "sleep"}
                  /\ pc[l] = "sleep" =>
                        /\ Len(tasks[l]) = Len(response[l].body.jobs)
                        /\ wait_seconds[l] = 0

\* the hive answered the first submission with 500; the second job was still
\* computed and submitted
C17_Witness ==
    /\ IterationOver(1) /\ Len(tasks[1]) = 2
    /\ tasks[1][1].reply = "500" /\ tasks[1][1].posts = 1
    /\ tasks[1][2].posts = 1 /\ wait_seconds[1] = 0

\* C18 as claimed: the vram of a request in flight is the free memory the
\* device reported when the request was built
C18_VramIsFreeMemory ==
    \A l \in MainLoop :
        request[l] # NoRequest =>
            /\ mem_info[l] # NoMemInfo
            /\ request[l].vram = mem_info[l][1]

\* C19: with the one poll loop at most one Device is leased at a time, the
\* pool holds every registered Device whenever the loop sleeps or is about to
\* acquire, and so an acquire never finds the pool empty
C19_SingleLoopNeverBlocks ==
    phase = "running" =>
        /\ Cardinality({l \in Loops : device[l] # NoDevice}) <= 1
        /\ Len(pool) >= device_count - 1
        /\ \A l \in MainLoop :
              /\ pc[l] \in {"sleep", "acquire"} => PoolIsRegistry
              /\ pc[l] = "acquire" => pool_has_device(pool) /\ ENABLED Acquire(l)

\* the loop is about to acquire again, with every Device available, after an
\* iteration that found work
C19_Witness ==
    /\ pc[1] = "acquire" /\ device_count = MaxDevices
    /\ wait_seconds[1] = 0 /\ prev_wait[1] = 0 /\ PoolIsRegistry
    /\ pool # SeedPool(<<>>, 0, device_count)

\* a 200 reply with a well-formed `jobs` list of at least one job
WorkAssigned(r) == WellFormed(r) /\ r.body.jobs # <<>>

\* C20: a job is dispatched only in an iteration whose request got a 200
\* reply with a well-formed, non-empty `jobs` list; an iteration that ends
\* after anything else has started no computation and submitted no result
C20_DispatchOnlyOnWork ==
    \A l \in MainLoop :
        /\ tasks[l] # <<>> => WorkAssigned(response[l])
        /\ (IterationOver(l) /\ ~WorkAssigned(response[l])) =>
              /\ tasks[l] = <<>>
              /\ wait_seconds[l] \in {11, 121}

\* an iteration whose 200 reply carried a `jobs` field that is not a list is
\* over
C20_Witness ==
    /\ IterationOver(1) /\ response[1].status = 200
    /\ response[1].body.type = "object" /\ response[1].body.has_jobs
    /\ ~response[1].body.jobs_is_list
    /\ tasks[1] = <<>> /\ wait_seconds[1] = 11

====
